---- MODULE Spec2Model ----
(***************************************************************************)
(* cg-set-wan-bfd.py: bulk change of the BFD mode (and optionally LQM and  *)
(* BWM) of the WAN interfaces whose circuit name contains a text.          *)
(*                                                                         *)
(* The program is one sequential process.  Its position is pc; one action  *)
(* models one step of __main__: authenticate(), then the steps of go()     *)
(* (tenants, labels, sites, one step per site, one step per prompt line,   *)
(* one step per matched interface), then logout().  The controller behind  *)
(* the SDK is part of the state: it holds the sites and WAN interfaces and *)
(* answers every call with success or failure.                             *)
(*                                                                         *)
(* Strings that the code inspects character by character (circuit names,   *)
(* the match text, the lines typed at the prompt) are sequences of         *)
(* one-character strings, so that lower() and "in" are computed.           *)
(***************************************************************************)
EXTENDS Integers, Sequences, FiniteSets, TLC

\* ----------------------------------------------------------------- bounds

\* Number of WAN interfaces on the controller.
MaxIfaces == 2
\* Longest line typed at the confirmation prompt (VerifySpec enumerates all).
MaxLineLen == 3
\* Cap on the lines rejected at the prompt in one run.
MaxRetries == 1

\* ---------------------------------------------------------------- strings

None == "None"

UpperCase == <<"A","B","C","D","E","F","G","H","I","J","K","L","M",
               "N","O","P","Q","R","S","T","U","V","W","X","Y","Z">>
LowerCase == <<"a","b","c","d","e","f","g","h","i","j","k","l","m",
               "n","o","p","q","r","s","t","u","v","w","x","y","z">>

\* The lower-case letter of every upper-case letter.
LowerOf == [c \in {UpperCase[i] : i \in DOMAIN UpperCase} |->
               LowerCase[CHOOSE i \in DOMAIN UpperCase : UpperCase[i] = c]]

\* str.lower() on one character.
LowerChar(c) == IF c \in DOMAIN LowerOf THEN LowerOf[c] ELSE c

\* str.lower()
lower(s) == [i \in DOMAIN s |-> LowerChar(s[i])]

\* Python's "needle in hay" on strings: contiguous substring ("" is in all).
StrIn(needle, hay) ==
    \E i \in 0..(Len(hay) - Len(needle)) :
        SubSeq(hay, i + 1, i + Len(needle)) = needle

\* def string_match(string, match)
string_match(string, match) == StrIn(lower(match), lower(string))

\* A string literal of the program, spelled as characters.
LTE1 == <<"L","T","E","-","1">>
Fiber == <<"F","i","b","e","r">>
lte == <<"l","t","e">>
Lt == <<"L","t","e">>
yes == <<"y","e","s">>
y == <<"y">>
no == <<"n","o">>
n == <<"n">>

\* ------------------------------------------------- the controller's data

\* The sites, in the order get.sites() lists them.
SiteIds == <<"s1", "s2">>
ClusterRoles == {"HUB", "SPOKE"}

IfaceIds == 1..MaxIfaces
\* The site a WAN interface belongs to: the last interface sits on the first
\* site, so that the order of discovery is not the order of the identifiers.
SiteOf(i) == IF i = 0 THEN None ELSE IF i = MaxIfaces THEN "s1" ELSE "s2"

\* The one WAN interface label the controller defines.
LabelIds == {"L1"}

CircuitNames == {LTE1, Fiber}
BfdModes == {"aggressive", "non_aggressive"}
BwConfigModes == {"manual", "manual_bwm_disabled", "auto"}
\* The (bfd_mode, lqm_enabled) pairs an interface starts with.
Monitoring == {<<"aggressive", "true">>, <<"non_aggressive", "false">>}

\* A WAN interface as get.waninterfaces() returns it.
Iface(i, name, mon, bw) ==
    [id |-> i, site_id |-> SiteOf(i), name |-> name, label_id |-> "L1",
     bfd_mode |-> mon[1], lqm_enabled |-> mon[2], bw_config_mode |-> bw]

IfacesOf(i) == {Iface(i, nm, mon, bw) :
                    nm \in CircuitNames, mon \in Monitoring, bw \in BwConfigModes}

\* --------------------------------------------------------------- requests

Choices == {"nochange", "on", "off"}
MatchTexts == {lte, Lt}
\* argparse: --matchtext, --bfd-mode (choices), --lqm, --bwm (choices)
Requests == [matchtext : MatchTexts, bfd_mode : BfdModes,
             lqm : Choices, bwm : Choices]

\* Where a token may come from, in the order authenticate() looks.
\* empty: the token text found there is the empty string.
Environments == [token : BOOLEAN, authtokenfile : BOOLEAN,
                 X_AUTH_TOKEN : BOOLEAN, AUTH_TOKEN : BOOLEAN, empty : BOOLEAN]

\* Lines typed at the prompt in a full run.
SampleLines == {<<"Y">>, <<"N","o">>, <<"q">>}

\* Every line of at most MaxLineLen characters over these characters.
LineChars == {"y", "Y", "e", "s", "n", "N", "o"}
AllLines == UNION {[1..k -> LineChars] : k \in 0..MaxLineLen}

VARIABLES
    CLIARGS,              \* the parsed arguments (line 73)
    exclude_hub_sites,    \* module-level setting (line 49)
    site_role,            \* controller: site id -> element_cluster_role
    wans,                 \* controller: interface id -> WAN interface
    pc,                   \* the position of the process
    tenant_id,            \* cgx_session.tenant_id
    wan_label_dict,       \* the label ids fetched (line 151)
    site_idx,             \* position of the loop of line 164
    matched_wan_labels,   \* the match records, in insertion order (line 148)
    answer,               \* the last line read by verify_change (line 84)
    verified,             \* what verify_change returned (line 191)
    mut_idx,              \* position of the loop of line 195
    log,                  \* the collaborator calls and notable prints, in order
    exit_at,              \* the exit point taken
    exit_status,          \* the process's exit status
    run,                  \* "first" or "second" invocation of the program
    prev                  \* the controller as this invocation found it (wans); in
                          \* the second invocation also as the first found it
                          \* (before) and the interfaces the first updated

vars == <<CLIARGS, exclude_hub_sites, site_role, wans, pc, tenant_id,
          wan_label_dict, site_idx, matched_wan_labels, answer, verified,
          mut_idx, log, exit_at, exit_status, run, prev>>

config == <<CLIARGS, exclude_hub_sites, site_role>>
progress == <<pc, tenant_id, wan_label_dict, site_idx, matched_wan_labels,
              answer, verified, mut_idx, log, exit_at, exit_status>>

\* One entry of log.
Ev(ev, site, id, data, ok) ==
    [ev |-> ev, site |-> site, id |-> id, data |-> data, ok |-> ok]
\* The data field of an entry that carries no payload.
NoData == Iface(0, <<>>, <<None, None>>, None)
Call(ev) == Ev(ev, None, 0, NoData, TRUE)

\* ------------------------------------------------------------------- exit

\* sys.exit(arg): no argument or None is status 0, any other object that is
\* not an integer is printed and the status is 1.
SysExitStatus(arg) == IF arg = None THEN 0 ELSE 1

\* cloudgenix.jd(resp) prints the response and returns nothing.
jd(resp) == None

\* vars(resp): the response's attribute dictionary.
VarsOf(resp) == "dict"

\* An uncaught exception ends the interpreter with status 1.
UncaughtStatus == 1

\* The mutant of logout(): the call to the collaborator is lost.
logout_Skipped(l) == l

\* def logout(): the log after it.
logout(l) == Append(l, Call("logout"))

Exit(at, status) ==
    /\ pc' = "exited"
    /\ exit_at' = at
    /\ exit_status' = status

\* answer = None (line 81): no line read yet.
NoLine == <<None>>

\* The process has not exited yet.
Running == -1

\* ----------------------------------------------------------- authenticate

\* Lines 98-113: the first source present wins (an empty --token counts as
\* absent); without any, the login is interactive.
AuthSource(env) ==
    IF env.token /\ ~env.empty THEN "token"
    ELSE IF env.authtokenfile THEN "authtokenfile"
    ELSE IF env.X_AUTH_TOKEN THEN "X_AUTH_TOKEN"
    ELSE IF env.AUTH_TOKEN THEN "AUTH_TOKEN"
    ELSE "interactive"

\* Line 115: if CLOUDGENIX_AUTH_TOKEN: a token that is there and not empty.
HaveToken(env) == AuthSource(env) # "interactive" /\ ~env.empty

\* Lines 92-119, 127: with a token, one use_token call; a rejected token
\* (tenant_id stays None) prints the error and calls sys.exit() bare.
AuthenticateToken ==
    /\ pc = "authenticate"
    /\ \E env \in Environments, accepted \in BOOLEAN :
        /\ HaveToken(env)
        /\ IF accepted
           THEN /\ tenant_id' = "tenant"
                /\ pc' = "tenants"
                /\ UNCHANGED <<exit_at, exit_status>>
           ELSE /\ Exit("auth", SysExitStatus(None))
                /\ UNCHANGED tenant_id
    /\ UNCHANGED <<config, wans, wan_label_dict, site_idx, matched_wan_labels,
                   answer, verified, mut_idx, log, run, prev>>

\* Lines 120-127: without a token, interactive.login() is repeated until a
\* tenant id is there; a failed attempt leaves the state as it was.
AuthenticateInteractive ==
    /\ pc = "authenticate"
    /\ \E env \in Environments, accepted \in BOOLEAN :
        /\ ~HaveToken(env)
        /\ IF accepted
           THEN /\ tenant_id' = "tenant"
                /\ pc' = "tenants"
           ELSE UNCHANGED <<tenant_id, pc>>
    /\ UNCHANGED <<config, wans, wan_label_dict, site_idx, matched_wan_labels,
                   answer, verified, mut_idx, log, exit_at, exit_status, run, prev>>

\* --------------------------------------------------------------- go()

\* Lines 136-144: get.tenants(); on failure logout(), then
\* sys.exit(vars(resp)).
GetTenants ==
    /\ pc = "tenants"
    /\ \E cgx_status \in BOOLEAN :
        IF cgx_status
        THEN /\ pc' = "labels"
             /\ UNCHANGED <<log, exit_at, exit_status>>
        ELSE /\ log' = logout(log)
             /\ Exit("tenants", SysExitStatus(VarsOf("resp")))
    /\ UNCHANGED <<config, wans, tenant_id, wan_label_dict, site_idx,
                   matched_wan_labels, answer, verified, mut_idx, run, prev>>

\* Lines 151-159: the label lookup; a failed response leaves it empty.
GetLabels ==
    /\ pc = "labels"
    /\ \E ok \in BOOLEAN :
        wan_label_dict' = IF ok THEN LabelIds ELSE {}
    /\ pc' = "sites"
    /\ UNCHANGED <<config, wans, tenant_id, site_idx, matched_wan_labels,
                   answer, verified, mut_idx, log, exit_at, exit_status, run, prev>>

\* Lines 161-163, 235-238: get.sites(); on failure logout(), then
\* sys.exit(jd(resp)).
GetSites ==
    /\ pc = "sites"
    /\ \E cgx_status \in BOOLEAN :
        IF cgx_status
        THEN /\ pc' = IF Len(SiteIds) = 0 THEN "verify" ELSE "site"
             /\ site_idx' = 1
             /\ UNCHANGED <<log, exit_at, exit_status>>
        ELSE /\ log' = logout(log)
             /\ Exit("sites", SysExitStatus(jd("resp")))
             /\ UNCHANGED site_idx
    /\ UNCHANGED <<config, wans, tenant_id, wan_label_dict, matched_wan_labels,
                   answer, verified, mut_idx, run, prev>>

\* The condition as the setting's name reads: hubs are left out only when
\* the setting is on.
SiteConsidered_Intended(exclude, role) == (~exclude) \/ role # "HUB"

\* Line 167: if (exclude_hub_sites and site['element_cluster_role'] != "HUB")
SiteConsidered(exclude, role) == exclude /\ role # "HUB"

\* The items of get.waninterfaces(site), in the controller's order.
RECURSIVE ItemsFrom(_, _)
ItemsFrom(i, site) ==
    IF i > MaxIfaces THEN <<>>
    ELSE (IF SiteOf(i) = site THEN <<wans[i]>> ELSE <<>>) \o ItemsFrom(i + 1, site)

\* Lines 174-176: matched_wan_labels[interface['id']] = {site_id, data}; a
\* dict keeps a key's first position and takes the new value.
Record(acc, site, interface) ==
    LET rec == [id |-> interface.id, site_id |-> site, data |-> interface] IN
    IF \E k \in DOMAIN acc : acc[k].id = interface.id
    THEN [k \in DOMAIN acc |-> IF acc[k].id = interface.id THEN rec ELSE acc[k]]
    ELSE Append(acc, rec)

\* Lines 171-186: the loop over a site's interfaces.  err: the print of line
\* 179 looked up a label id that wan_label_dict does not hold (KeyError).
RECURSIVE Scan(_, _, _, _, _)
Scan(items, site, match_text, labels, acc) ==
    IF items = <<>> THEN [matched |-> acc, err |-> FALSE]
    ELSE LET interface == Head(items) IN
         IF string_match(interface.name, match_text)
         THEN IF interface.label_id \in labels
              THEN Scan(Tail(items), site, match_text, labels,
                        Record(acc, site, interface))
              ELSE [matched |-> Record(acc, site, interface), err |-> TRUE]
         ELSE Scan(Tail(items), site, match_text, labels, acc)

\* Lines 164-186: one pass of the loop over the sites.
VisitSite ==
    /\ pc = "site"
    /\ LET site == SiteIds[site_idx]
           next == IF site_idx = Len(SiteIds) THEN "verify" ELSE "site"
       IN
       IF SiteConsidered(exclude_hub_sites, site_role[site])
       THEN \E ok \in BOOLEAN :
              LET fetched == Append(log, Ev("waninterfaces", site, 0, NoData, TRUE))
                  res == Scan(ItemsFrom(1, site), site, CLIARGS.matchtext,
                              wan_label_dict, matched_wan_labels)
              IN
              /\ log' = fetched
              /\ IF ~ok
                 THEN /\ pc' = next
                      /\ site_idx' = site_idx + 1
                      /\ UNCHANGED <<matched_wan_labels, exit_at, exit_status>>
                 ELSE /\ matched_wan_labels' = res.matched
                      /\ IF res.err
                         THEN /\ Exit("KeyError", UncaughtStatus)
                              /\ UNCHANGED site_idx
                         ELSE /\ pc' = next
                              /\ site_idx' = site_idx + 1
                              /\ UNCHANGED <<exit_at, exit_status>>
       ELSE /\ pc' = next
            /\ site_idx' = site_idx + 1
            /\ UNCHANGED <<matched_wan_labels, log, exit_at, exit_status>>
    /\ UNCHANGED <<config, wans, tenant_id, wan_label_dict, answer, verified,
                   mut_idx, run, prev>>

\* ------------------------------------------------------------ confirmation

\* The mutant of verify_change's tests: "no"/"n" is looked for first.
verify_change_NoFirst(line) ==
    IF string_match(line, no) \/ string_match(line, n) THEN "False"
    ELSE IF string_match(line, yes) \/ string_match(line, y) THEN "True"
    ELSE IF line \in {yes, no, y, n} THEN "None"
    ELSE "again"

\* Lines 83-90, for the line just read: what verify_change returns ("True",
\* "False", or "None" when the while condition ends the loop), or "again"
\* when it prints the reminder and reads another line.
verify_change(line) ==
    IF string_match(line, yes) \/ string_match(line, y) THEN "True"
    ELSE IF string_match(line, no) \/ string_match(line, n) THEN "False"
    ELSE IF line \in {yes, no, y, n} THEN "None"
    ELSE "again"

\* The mutant of line 191: the answer is not looked at.
Proceed_Always(result) == TRUE

\* Line 191: if(verify_change(...)): the truth value of what it returned.
Proceed(result) == result = "True"

Reminders(l) == Cardinality({k \in DOMAIN l : l[k].ev = "reminder"})

\* Lines 187-194, 233-234 with verify_change (80-90): one line read at the
\* prompt.  input() on a closed stdin raises EOFError.
VerifyChange(Lines) ==
    /\ pc = "verify"
    /\ \/ \E line \in Lines :
            LET result == verify_change(line) IN
            /\ answer' = line
            /\ IF result = "again"
               THEN /\ Reminders(log) < MaxRetries
                    /\ log' = Append(log, Call("reminder"))
                    /\ UNCHANGED <<pc, verified>>
               ELSE /\ verified' = result
                    /\ IF Proceed(result)
                       THEN /\ pc' = IF matched_wan_labels = <<>>
                                     THEN "logout" ELSE "mutate"
                            /\ log' = log
                       ELSE /\ pc' = "logout"
                            /\ log' = Append(log, Call("CHANGES ABORTED!"))
            /\ UNCHANGED <<exit_at, exit_status>>
       \/ /\ Exit("EOFError", UncaughtStatus)
          /\ UNCHANGED <<answer, verified, log>>
    /\ mut_idx' = 1
    /\ UNCHANGED <<config, wans, tenant_id, wan_label_dict, site_idx,
                   matched_wan_labels, run, prev>>

\* ---------------------------------------------------------------- mutation

\* Lines 208-212
CurrentBwmState(bw_config_mode) ==
    IF bw_config_mode = "manual_bwm_disabled" THEN "Off"
    ELSE IF bw_config_mode = "manual" THEN "On"
    ELSE "unknown"

\* Lines 202-207
PatchLqm(data, change_lqm) ==
    IF change_lqm = "on" THEN [data EXCEPT !.lqm_enabled = "true"]
    ELSE IF change_lqm = "off" THEN [data EXCEPT !.lqm_enabled = "false"]
    ELSE data

\* The mutant of the BWM patch: the state is not looked at.
PatchBwm_Coerce(data, change_bwm) ==
    IF change_bwm = "on" THEN [data EXCEPT !.bw_config_mode = "manual"]
    ELSE IF change_bwm = "off"
         THEN [data EXCEPT !.bw_config_mode = "manual_bwm_disabled"]
         ELSE data

\* The mutant of the BWM patch: a requested change flips the mode.
PatchBwm_Toggle(data, change_bwm) ==
    IF change_bwm = "nochange" \/ CurrentBwmState(data.bw_config_mode) = "unknown"
    THEN data
    ELSE [data EXCEPT !.bw_config_mode =
              IF @ = "manual" THEN "manual_bwm_disabled" ELSE "manual"]

\* Lines 214-225, the assignments
PatchBwm(data, change_bwm) ==
    LET current_bwm_state == CurrentBwmState(data.bw_config_mode) IN
    IF change_bwm = "on"
    THEN IF current_bwm_state = "unknown" THEN data
         ELSE [data EXCEPT !.bw_config_mode = "manual"]
    ELSE IF change_bwm = "off" /\ current_bwm_state # "unknown"
         THEN IF current_bwm_state = "unknown" THEN data
              ELSE [data EXCEPT !.bw_config_mode = "manual_bwm_disabled"]
         ELSE data

\* Lines 214-225, the prints "Ignoring BWM Mode change due to unknown state"
BwmIgnored(data, change_bwm) ==
    LET current_bwm_state == CurrentBwmState(data.bw_config_mode) IN
    \/ change_bwm = "on" /\ current_bwm_state = "unknown"
    \/ /\ change_bwm = "off" /\ current_bwm_state # "unknown"
       /\ current_bwm_state = "unknown"

\* Lines 196-225: the payload built from a match record's data.
Patch(data, args) ==
    PatchBwm(PatchLqm([data EXCEPT !.bfd_mode = args.bfd_mode], args.lqm),
             args.bwm)

\* The mutant of the loop of line 195: a failed submission ends it.
MutateNext_StopOnFailure(k, total, resp) ==
    IF resp /\ k < total THEN "mutate" ELSE "logout"

\* Lines 195, 227-232: after the submission of the k-th of total records,
\* whatever its response.
MutateNext(k, total, resp) == IF k < total THEN "mutate" ELSE "logout"

\* Lines 195-232: one pass of the loop over the match records; a successful
\* put replaces the controller's interface.
ChangeInterface ==
    /\ pc = "mutate"
    /\ LET rec == matched_wan_labels[mut_idx]
           put_data == Patch(rec.data, CLIARGS)
           noted == IF BwmIgnored(PatchLqm([rec.data EXCEPT !.bfd_mode =
                                              CLIARGS.bfd_mode], CLIARGS.lqm),
                                  CLIARGS.bwm)
                    THEN Append(log, Ev("ignoring", rec.site_id, rec.id, NoData, TRUE))
                    ELSE log
       IN
       \E resp \in BOOLEAN :
          /\ log' = Append(noted, Ev("put", rec.site_id, rec.id, put_data, resp))
          /\ wans' = IF resp THEN [wans EXCEPT ![rec.id] = put_data] ELSE wans
          /\ matched_wan_labels' =
                 [matched_wan_labels EXCEPT ![mut_idx].data = put_data]
          /\ pc' = MutateNext(mut_idx, Len(matched_wan_labels), resp)
          /\ mut_idx' = mut_idx + 1
    /\ UNCHANGED <<config, tenant_id, wan_label_dict, site_idx, answer,
                   verified, exit_at, exit_status, run, prev>>

\* Line 248: logout() at the end of __main__, then the interpreter ends.
Logout ==
    /\ pc = "logout"
    /\ log' = logout(log)
    /\ Exit("end", 0)
    /\ UNCHANGED <<config, wans, tenant_id, wan_label_dict, site_idx,
                   matched_wan_labels, answer, verified, mut_idx, run, prev>>

\* ------------------------------------------------------ the specifications

Fresh ==
    /\ pc = "authenticate"
    /\ tenant_id = None
    /\ wan_label_dict = {}
    /\ site_idx = 0
    /\ matched_wan_labels = <<>>
    /\ answer = NoLine
    /\ verified = "pending"
    /\ mut_idx = 0
    /\ log = <<>>
    /\ exit_at = None
    /\ exit_status = Running

\* The controllers whose interface i is one of choices(i), given as a set.
ControllersOf(choices) ==
    {w \in [IfaceIds -> choices] : \A i \in IfaceIds : w[i].id = i}
Roles == [{SiteIds[k] : k \in DOMAIN SiteIds} -> ClusterRoles]

\* Lines 46-50, 244-245: the module's globals and the parsed arguments, in
\* front of a controller holding the sites and interfaces.
InitOf(requests, settings, roles, controllers) ==
    /\ CLIARGS \in requests
    /\ exclude_hub_sites \in settings
    /\ site_role \in roles
    /\ wans \in controllers
    /\ run = "first"
    /\ prev = [wans |-> wans, applied |-> {}, before |-> wans]
    /\ Fresh

\* Interfaces that differ in their circuit name.
NamedIfaces(i) ==
    {Iface(i, nm, <<"aggressive", "true">>, "manual") : nm \in CircuitNames}

\* Interfaces that differ in what the patch reads and writes.
ModedIfaces(i) ==
    {Iface(i, LTE1, mon, bw) : mon \in Monitoring, bw \in BwConfigModes}

AllNamed == UNION {NamedIfaces(i) : i \in IfaceIds}
AllModed == UNION {ModedIfaces(i) : i \in IfaceIds}

\* Every request, exclude_hub_sites as line 49 sets it, sites of every role,
\* interfaces of every name.
Init == InitOf(Requests, {TRUE}, Roles, ControllersOf(AllNamed))

Next ==
    \/ AuthenticateToken
    \/ AuthenticateInteractive
    \/ GetTenants
    \/ GetLabels
    \/ GetSites
    \/ VisitSite
    \/ VerifyChange(SampleLines)
    \/ ChangeInterface
    \/ Logout

Spec == Init /\ [][Next]_vars

\* The program is started again, with the same arguments, once a confirmed
\* bulk update has ended (lines 244-248 a second time).
Restart ==
    /\ pc = "exited"
    /\ exit_at = "end"
    /\ verified = "True"
    /\ run = "first"
    /\ run' = "second"
    /\ prev' = [wans |-> wans, before |-> prev.wans,
                 applied |-> {log[k].id : k \in {j \in DOMAIN log :
                                 log[j].ev = "put" /\ log[j].ok}}]
    /\ pc' = "authenticate"
    /\ tenant_id' = None
    /\ wan_label_dict' = {}
    /\ site_idx' = 0
    /\ matched_wan_labels' = <<>>
    /\ answer' = NoLine
    /\ verified' = "pending"
    /\ mut_idx' = 0
    /\ log' = <<>>
    /\ exit_at' = None
    /\ exit_status' = Running
    /\ UNCHANGED <<config, wans>>

\* The program with line 49 edited either way: exclude_hub_sites on or off.
InitSetting ==
    InitOf({r \in Requests : r.lqm = "nochange" /\ r.bwm = "nochange"},
           BOOLEAN, Roles, ControllersOf(AllNamed))

SettingSpec == InitSetting /\ [][Next]_vars

\* Every --bfd-mode, --lqm and --bwm with one match text.
ModeRequests == {r \in Requests : r.matchtext = Lt}
SpokeRoles == {r \in Roles : \A s \in DOMAIN r : r[s] = "SPOKE"}

\* Every request on spoke sites whose interfaces all match, in every mode.
InitPatch == InitOf(ModeRequests, {TRUE}, SpokeRoles, ControllersOf(AllModed))

PatchSpec == InitPatch /\ [][Next]_vars

\* An interface that does not match.
Other(i) == Iface(i, Fiber, <<"aggressive", "true">>, "manual")

\* One matching interface, in every mode, among interfaces that do not match.
OneModed ==
    {w \in [IfaceIds -> UNION {ModedIfaces(i) \cup {Other(i)} : i \in IfaceIds}] :
        \E j \in IfaceIds : /\ w[j] \in ModedIfaces(j)
                            /\ \A i \in IfaceIds \ {j} : w[i] = Other(i)}

InitTwice == InitOf(ModeRequests, {TRUE}, SpokeRoles, OneModed)

NextTwice ==
    \/ AuthenticateToken
    \/ AuthenticateInteractive
    \/ GetTenants
    \/ GetLabels
    \/ GetSites
    \/ VisitSite
    \/ VerifyChange(SampleLines)
    \/ ChangeInterface
    \/ Logout
    \/ Restart

TwiceSpec == InitTwice /\ [][NextTwice]_vars

\* verify_change alone, on every line: the prompt of a run that found only
\* hub sites and so no interface to change (a state Spec reaches).
InitVerify ==
    /\ CLIARGS \in {r \in Requests : r.matchtext = Lt /\ r.bfd_mode = "aggressive"
                                     /\ r.lqm = "nochange" /\ r.bwm = "nochange"}
    /\ exclude_hub_sites = TRUE
    /\ site_role \in {r \in Roles : \A s \in DOMAIN r : r[s] = "HUB"}
    /\ wans = [i \in IfaceIds |-> Other(i)]
    /\ run = "first"
    /\ prev = [wans |-> wans, applied |-> {}, before |-> wans]
    /\ pc = "verify"
    /\ tenant_id = "tenant"
    /\ wan_label_dict = LabelIds
    /\ site_idx = Len(SiteIds) + 1
    /\ matched_wan_labels = <<>>
    /\ answer = NoLine
    /\ verified = "pending"
    /\ mut_idx = 0
    /\ log = <<>>
    /\ exit_at = None
    /\ exit_status = Running

NextVerify ==
    \/ VerifyChange(AllLines)
    \/ Logout

VerifySpec == InitVerify /\ [][NextVerify]_vars

\* ------------------------------------------------------------- properties

\* The entries of a log of one kind, in order.
Only(l, ev) == SelectSeq(l, LAMBDA e : e.ev = ev)
Puts == Only(log, "put")
Logouts == Len(Only(log, "logout"))
Exited == pc = "exited"
Fetched(site) == \E k \in DOMAIN log : log[k].ev = "waninterfaces" /\ log[k].site = site
KnownModes == {"manual", "manual_bwm_disabled"}

\* C1: no put is issued unless the prompt returned the affirmative answer;
\* when the user declined there is no put, "CHANGES ABORTED!" is printed, and
\* the process ends after exactly one logout with status zero.
C1_ConfirmationGate ==
    /\ Puts # <<>> => verified = "True"
    /\ verified \in {"False", "None"} =>
         /\ Puts = <<>>
         /\ Len(Only(log, "CHANGES ABORTED!")) = 1
         /\ pc \in {"logout", "exited"}
         /\ Exited => /\ exit_at = "end"
                      /\ exit_status = 0
                      /\ Logouts = 1
                      /\ log[Len(log)].ev = "logout"

\* C1 witness: a run that matched an interface, was declined and has ended.
C1_Witness ==
    Exited /\ verified = "False" /\ matched_wan_labels # <<>>

\* C2 (as claimed): a site the loop has passed had its WAN interfaces fetched
\* exactly when it is eligible: not a hub when exclude_hub_sites is on, and
\* any site when it is off.
C2_SiteEligibility ==
    \A k \in DOMAIN SiteIds :
        (pc \in {"site", "verify", "mutate", "logout"} /\ site_idx > k) =>
            (Fetched(SiteIds[k]) <=>
                SiteConsidered_Intended(exclude_hub_sites, site_role[SiteIds[k]]))

\* What the BWM rule makes of a mode under a request.
RuledMode(old, change_bwm) ==
    IF change_bwm = "on" /\ old \in KnownModes THEN "manual"
    ELSE IF change_bwm = "off" /\ old \in KnownModes THEN "manual_bwm_disabled"
    ELSE old

\* C3: every payload submitted carries bw_config_mode "manual" when bwm=on
\* and the interface's mode was manual or manual_bwm_disabled,
\* "manual_bwm_disabled" when bwm=off and it was one of the two, and the
\* interface's own mode otherwise.
C3_BwmRule ==
    \A k \in DOMAIN Puts :
        Puts[k].data.bw_config_mode =
            RuledMode(prev.wans[Puts[k].id].bw_config_mode, CLIARGS.bwm)

\* C3 witness: an interface in an unknown mode was submitted under bwm=on.
C3_Witness ==
    /\ CLIARGS.bwm = "on"
    /\ \E k \in DOMAIN Puts :
          prev.wans[Puts[k].id].bw_config_mode \notin KnownModes

\* C4 (as claimed): a put is directly preceded by the "ignoring" note for its
\* interface exactly when a BWM change is requested and the interface's mode
\* is unknown.
C4_IgnoredNote ==
    \A k \in DOMAIN log :
        log[k].ev = "put" =>
            ((k > 1 /\ log[k - 1].ev = "ignoring" /\ log[k - 1].id = log[k].id)
             <=> (/\ CLIARGS.bwm \in {"on", "off"}
                  /\ prev.wans[log[k].id].bw_config_mode \notin KnownModes))

\* The position of a site in the site list.
SitePos(site) == CHOOSE k \in DOMAIN SiteIds : SiteIds[k] = site

\* C5: the match records are in the order of discovery (sites, then the
\* interfaces of a site); the puts issued so far are scoped, one each and in
\* that order, to the first match records; and once the loop is over every
\* match record has had its put, whatever the responses were.
C5_BestEffort ==
    LET m == matched_wan_labels IN
    /\ \A a, b \in DOMAIN m :
          a < b => \/ SitePos(m[a].site_id) < SitePos(m[b].site_id)
                   \/ m[a].site_id = m[b].site_id /\ m[a].id < m[b].id
    /\ Len(Puts) <= Len(m)
    /\ \A k \in DOMAIN Puts : Puts[k].site = m[k].site_id /\ Puts[k].id = m[k].id
    /\ pc = "mutate" => Len(Puts) = mut_idx - 1
    /\ (verified = "True" /\ pc \in {"logout", "exited"}) => Len(Puts) = Len(m)

\* C5 witness: a run ended whose first submission failed and whose second
\* succeeded.
C5_Witness ==
    Exited /\ Len(Puts) >= 2 /\ ~Puts[1].ok /\ Puts[2].ok

HasY(line) == \E i \in DOMAIN line : line[i] \in {"y", "Y"}
HasN(line) == \E i \in DOMAIN line : line[i] \in {"n", "N"}

C7_DiscoveryFailure ==
    (Exited /\ exit_at \in {"tenants", "sites"}) =>
        /\ log = <<Call("logout")>>
        /\ verified = "pending"
        /\ answer = NoLine
        /\ exit_status # 0

\* C8 (as claimed): the process never ends without a logout.
C8_LogoutOnEveryPath == Exited => Logouts >= 1

\* C8 (amended): the process ends after exactly one logout, its last call,
\* at normal completion and after a failed get.tenants() or get.sites(); it
\* ends without any logout when the token is rejected and when an exception
\* is not caught (the label lookup of line 179, input() at end of file).
C8_LogoutWhereCalled ==
    Exited =>
        /\ exit_at \in {"end", "tenants", "sites"} =>
              Logouts = 1 /\ log[Len(log)].ev = "logout"
        /\ exit_at \in {"auth", "KeyError", "EOFError"} => Logouts = 0

\* C8 witness: the process has ended on a failed get.sites(), logged out.
C8_Witness == Exited /\ exit_at = "sites" /\ Logouts = 1

\* C9 (as claimed): the exit status is non-zero exactly when the token was
\* rejected or get.tenants() or get.sites() failed.
C9_ExitStatus ==
    Exited => (exit_status # 0 <=> exit_at \in {"auth", "tenants", "sites"})

SameModes(a, b) ==
    /\ a.bfd_mode = b.bfd_mode
    /\ a.lqm_enabled = b.lqm_enabled
    /\ a.bw_config_mode = b.bw_config_mode

\* C10: in a second run of the same request, an interface the first run
\* updated keeps the bfd_mode, lqm_enabled and bw_config_mode the first run
\* left, and is submitted with exactly these values.
C10_Idempotent ==
    run = "second" =>
        /\ \A i \in prev.applied : SameModes(wans[i], prev.wans[i])
        /\ \A k \in DOMAIN Puts :
              Puts[k].id \in prev.applied =>
                  SameModes(Puts[k].data, prev.wans[Puts[k].id])

\* C10 witness: the second run has resubmitted, successfully, an interface
\* whose BWM mode the first run changed.
C10_Witness ==
    /\ run = "second"
    /\ CLIARGS.bwm = "off"
    /\ \E k \in DOMAIN Puts :
          /\ Puts[k].ok
          /\ Puts[k].id \in prev.applied
          /\ prev.before[Puts[k].id].bw_config_mode = "manual"
          /\ prev.wans[Puts[k].id].bw_config_mode = "manual_bwm_disabled"

====
